---- MODULE Spec2Model ----
(***************************************************************************)
(* The multigroup cross-section (MGXS) interface of OpenMC,                *)
(* src/src/mgxs_interface.cpp: the library loader (read_mgxs, add_mgxs_c,  *)
(* read_mg_cross_sections_header_c), the construction of macroscopic       *)
(* tables (create_macro_xs_c) and the transport-time selection and lookup  *)
(* entry points.                                                           *)
(*                                                                         *)
(* C++ vectors are sequences; a 0-based C++ index i reads element i + 1    *)
(* (operator At).  Energies are even naturals, so that the midpoint        *)
(* 0.5 * (a + b) of two boundaries is exact.                               *)
(***************************************************************************)
EXTENDS Integers, Sequences, FiniteSets, TLC

\* ------------------------------------------------------------------ bounds
MaxNuclides == 2
MaxMaterials == 2
MaxRefs == 2
MaxTemps == 1
MaxGroups == 2
MaxDelayedGroups == 2
MaxWorkers == 2

\* ------------------------------------------------------------ vocabulary
Absent == "absent"
Fissile == "fissionable"
NonFissile == "nonfissionable"

AllNames == <<"U235", "H1", "O16", "U238", "Zr90">>

\* data::nuclide_map : name -> dense 0-based index
nuclide_map ==
  [name \in {AllNames[k] : k \in 1..MaxNuclides} |->
     (CHOOSE k \in 1..MaxNuclides : AllNames[k] = name) - 1]

NuclideIndices == 0..(MaxNuclides - 1)

Workers == 1..MaxWorkers

\* the vector built at lines 76-79: nuclide_names[kv.second] = kv.first
nuclide_names == [i \in NuclideIndices |-> CHOOSE name \in DOMAIN nuclide_map : nuclide_map[name] = i]

Names == DOMAIN nuclide_map

VERSION_MGXS_LIBRARY == <<1, 0>>

\* element i (0-based) of a vector
At(v, i) == v[i + 1]

InBounds(v, i) == i >= 0 /\ i < Len(v)

SeqsUpTo(S, n) == UNION {[1..k -> S] : k \in 0..n}

RECURSIVE SumLen(_)
SumLen(ss) == IF ss = <<>> THEN 0 ELSE Len(Head(ss)) + SumLen(Tail(ss))

Energies == {2 * k : k \in 1..(MaxGroups + 1)}

Reverse(s) == [i \in 1..Len(s) |-> s[Len(s) + 1 - i]]

\* --------------------------------------------------------------- state
VARIABLES
  file,               \* the library file named by settings::path_cross_sections
  materials,          \* model::materials: nuclide_ (0-based indices), fissionable_
  pc,                 \* position of the loading thread
  error,              \* the message class of the fatal_error that ended the run
  num_energy_groups,  \* data::num_energy_groups
  rev_energy_bins,    \* data::rev_energy_bins
  energy_bins,        \* data::energy_bins
  energy_bin_avg,     \* data::energy_bin_avg
  libraries,          \* data::libraries
  nuclides_MG,        \* data::nuclides_MG
  nuc_buf,            \* identity of the heap buffer nuclides_MG currently owns
  nuc_cap,            \* nuclides_MG.capacity()
  macro_xs,           \* data::macro_xs
  already_read,       \* read_mgxs: the local seen-set
  mat_pos,              \* read_mgxs: position of the outer loop (1-based)
  nuc_pos,              \* read_mgxs: position of the inner loop (1-based)
  n_add,              \* history: calls of add_mgxs_c per name
  read_log,           \* history: the reads of nuclides_MG[i_nuc] at line 91
  macro_args,         \* history: the arguments of the create_macro_xs_c calls
  caller,             \* the integers the gout and dg arguments point to (<<>>: null)
  own,                \* history: per worker, the selection it made last
  call                \* history: the last lookup since the last selection, as the table got it

grid == <<num_energy_groups, rev_energy_bins, energy_bins, energy_bin_avg, libraries>>
store == <<nuclides_MG, nuc_buf, nuc_cap>>
loop == <<already_read, mat_pos, nuc_pos>>
loadvars == <<file, materials, pc, error, grid, store, macro_xs, loop, n_add, read_log, macro_args>>
transportvars == <<caller, own, call>>

\* ------------------------------------------------------- the library file
\* hdf5_interface: attribute_exists, as ensure_exists(file_id, name, true) asks
attribute_exists(f, name) == name \in f.attrs

\* hdf5_interface: object_exists(file_id, name)
object_exists(f, name) == name \in Names /\ f.datasets[name] # Absent

\* hdf5_interface: group_names(file_id), in the file's (alphabetical) order
RECURSIVE NamesIn(_, _)
NamesIn(f, k) ==
  IF k > Len(AllNames) THEN <<>>
  ELSE (IF object_exists(f, AllNames[k]) THEN <<AllNames[k]>> ELSE <<>>) \o NamesIn(f, k + 1)

group_names(f) == NamesIn(f, 1)

\* Mgxs(xs_grp, temperature): the table read from the group of that name
Mgxs(f, name) ==
  [name |-> name, fissionable |-> (name \in Names /\ f.datasets[name] = Fissile), t |-> 0, a |-> 0]

\* Mgxs(): the default-constructed table of line 156
BlankMgxs == [name |-> "", n_temps |-> 0, mgxs_ptr |-> <<>>, t |-> 0, a |-> 0]

Fatal(reason) == pc' = "fatal" /\ error' = reason

\* ---------------------------------------- read_mg_cross_sections_header_c
ReverseBinsForward(rev) == rev

\* lines 170-172: std::copy(crbegin, crend, back_inserter(energy_bins))
ReverseBins(rev) == Reverse(rev)

\* lines 174-177: the midpoints of adjacent boundaries
AverageEnergies(bins) == [i \in 1..(Len(bins) - 1) |-> (bins[i] + bins[i + 1]) \div 2]

\* lines 186-191: one neutron Library per top-level group name
LibrariesOf(names) == [k \in 1..Len(names) |-> [type_ |-> "neutron", materials_ |-> <<names[k]>>]]

read_mg_cross_sections_header_c ==
  /\ pc = "header"
  /\ IF ~attribute_exists(file, "energy_groups")
     THEN Fatal("energy_groups missing") /\ UNCHANGED grid
     ELSE IF ~attribute_exists(file, "group structure")
     THEN /\ num_energy_groups' = file.energy_groups
          /\ Fatal("group structure missing")
          /\ UNCHANGED <<rev_energy_bins, energy_bins, energy_bin_avg, libraries>>
     ELSE IF energy_bins \o ReverseBins(file.group_structure) = <<>>
     THEN \* line 175: energy_bins.size() - 1 wraps around for an empty vector
          \* and the loop reads past the end: undefined behaviour
          /\ num_energy_groups' = file.energy_groups
          /\ rev_energy_bins' = file.group_structure
          /\ pc' = "undefined"
          /\ UNCHANGED <<error, energy_bins, energy_bin_avg, libraries>>
     ELSE /\ num_energy_groups' = file.energy_groups
          /\ rev_energy_bins' = file.group_structure
          /\ energy_bins' = energy_bins \o ReverseBins(file.group_structure)
          /\ energy_bin_avg' = energy_bin_avg \o AverageEnergies(energy_bins')
          /\ IF group_names(file) = <<>>
             THEN Fatal("no MGXS data set") /\ UNCHANGED libraries
             ELSE /\ libraries' = libraries \o LibrariesOf(group_names(file))
                  /\ pc' = "read_mgxs"
                  /\ UNCHANGED error
  /\ UNCHANGED <<file, materials, store, macro_xs, loop, n_add, read_log, macro_args, transportvars>>

\* ------------------------------------------------------------- add_mgxs_c
\* std::vector growth: emplace_back relocates the elements exactly when
\* size() = capacity(); the new capacity is the implementation's choice
NewCapacities(len) == {len + 1, 2 * len} \ {len}

emplace_back_nuclide(tbl) ==
  /\ nuclides_MG' = Append(nuclides_MG, tbl)
  /\ IF Len(nuclides_MG) < nuc_cap
     THEN UNCHANGED <<nuc_buf, nuc_cap>>
     ELSE /\ nuc_buf' = nuc_buf + 1
          /\ nuc_cap' \in NewCapacities(Len(nuclides_MG))

DatasetMissingUnchecked(f, name) == FALSE

\* lines 106-113: the cross section set must exist in the library
DatasetMissing(f, name) == ~object_exists(f, name)

\* lines 100-117; on success pc is left to the caller
add_mgxs_c(f, name) ==
  /\ n_add' = [n_add EXCEPT ![name] = @ + 1]
  /\ IF DatasetMissing(f, name)
     THEN Fatal("data set missing") /\ UNCHANGED store
     ELSE emplace_back_nuclide(Mgxs(f, name))

\* --------------------------------------------------------------- read_mgxs
RECURSIVE FirstRef(_)
\* the first material at or after position m that has a nuclide to visit
FirstRef(m) ==
  IF m > Len(materials) THEN m
  ELSE IF Len(materials[m].nuclide_) > 0 THEN m ELSE FirstRef(m + 1)

\* lines 35-79: the checks of the file, and the locals of the table loop
read_mgxs_open ==
  /\ pc = "read_mgxs"
  /\ \E exists \in BOOLEAN :
       IF ~exists
       THEN Fatal("file does not exist") /\ UNCHANGED loop
       ELSE IF file.filetype # "mgxs"
       THEN Fatal("not a MGXS library") /\ UNCHANGED loop
       ELSE IF file.version # VERSION_MGXS_LIBRARY
       THEN Fatal("version mismatch") /\ UNCHANGED loop
       ELSE /\ already_read' = {}
            /\ mat_pos' = FirstRef(1)
            /\ nuc_pos' = 1
            /\ pc' = "loop"
            /\ UNCHANGED error
  /\ UNCHANGED <<file, materials, grid, store, macro_xs, n_add, read_log, macro_args, transportvars>>

NeedsLoadAlways(name, seen) == TRUE

\* line 86: already_read.find(name) == already_read.end()
NeedsLoad(name, seen) == name \notin seen

\* lines 82-95: one iteration of the inner loop
read_mgxs_iter ==
  /\ pc = "loop"
  /\ mat_pos <= Len(materials)
  /\ LET i_nuc == materials[mat_pos].nuclide_[nuc_pos]
         name == nuclide_names[i_nuc]
         need == NeedsLoad(name, already_read)
     IN IF need /\ DatasetMissing(file, name)
        THEN /\ add_mgxs_c(file, name)
             /\ UNCHANGED <<materials, loop, read_log>>
        ELSE /\ IF need
                THEN add_mgxs_c(file, name) /\ already_read' = already_read \cup {name}
                ELSE UNCHANGED <<store, n_add, already_read>>
             /\ IF InBounds(nuclides_MG', i_nuc)
                THEN /\ read_log' = read_log \cup
                          {[i_nuc |-> i_nuc, in_bounds |-> TRUE, hit |-> At(nuclides_MG', i_nuc).name]}
                     /\ materials' = IF At(nuclides_MG', i_nuc).fissionable
                                     THEN [materials EXCEPT ![mat_pos].fissionable_ = TRUE]
                                     ELSE materials
                     /\ pc' = "loop"
                ELSE \* line 91 reads past the end of nuclides_MG: undefined
                     \* behaviour, any flag may be read or the run may crash
                     /\ read_log' = read_log \cup {[i_nuc |-> i_nuc, in_bounds |-> FALSE, hit |-> ""]}
                     /\ \E garbage \in BOOLEAN :
                          materials' = IF garbage
                                       THEN [materials EXCEPT ![mat_pos].fissionable_ = TRUE]
                                       ELSE materials
                     /\ pc' \in {"loop", "undefined"}
             /\ IF nuc_pos < Len(materials[mat_pos].nuclide_)
                THEN nuc_pos' = nuc_pos + 1 /\ mat_pos' = mat_pos
                ELSE nuc_pos' = 1 /\ mat_pos' = FirstRef(mat_pos + 1)
             /\ UNCHANGED error
  /\ UNCHANGED <<file, grid, macro_xs, macro_args, transportvars>>

\* line 97: the loop is over, the file is closed and read_mgxs returns
read_mgxs_close ==
  /\ pc = "loop"
  /\ mat_pos > Len(materials)
  /\ pc' = "macro"
  /\ UNCHANGED <<file, materials, error, grid, store, macro_xs, loop, n_add, read_log, macro_args, transportvars>>

\* ------------------------------------------------------ query_fissionable_c
\* lines 121-129, for handles that are in bounds
query_fissionable_c(i_nuclides) ==
  \E n \in 1..Len(i_nuclides) : At(nuclides_MG, i_nuclides[n] - 1).fissionable

\* -------------------------------------------------------- create_macro_xs_c
create_macro_xs_c_no_blank(mat_name, i_nuclides, n_temps) ==
  IF n_temps > 0
  THEN macro_xs' = Append(macro_xs,
         [name |-> mat_name, n_temps |-> n_temps,
          mgxs_ptr |-> [n \in 1..Len(i_nuclides) |-> [buf |-> nuc_buf, pos |-> i_nuclides[n] - 1]],
          t |-> 0, a |-> 0])
  ELSE macro_xs' = macro_xs

\* lines 133-158; a pointer is the buffer it points into and the position
create_macro_xs_c(mat_name, i_nuclides, n_temps) ==
  IF n_temps > 0
  THEN macro_xs' = Append(macro_xs,
         [name |-> mat_name, n_temps |-> n_temps,
          mgxs_ptr |-> [n \in 1..Len(i_nuclides) |-> [buf |-> nuc_buf, pos |-> i_nuclides[n] - 1]],
          t |-> 0, a |-> 0])
  ELSE macro_xs' = Append(macro_xs, BlankMgxs)

\* ---------------------------------------------------- the loading sequence
MatNames == <<"fuel", "water", "clad", "gap", "air">>

\* the 1-based handles the material setup passes for a material
Handles(mat) == [n \in 1..Len(mat.nuclide_) |-> mat.nuclide_[n] + 1]

\* the temperature counts a material is set up with: none, or the whole axis
TempCounts == {0, MaxTemps}

\* after read_mgxs has returned, one macroscopic table per material, in order
build_macro_xs ==
  /\ pc = "macro"
  /\ Len(macro_args) < Len(materials)
  /\ \E n_temps \in TempCounts :
       LET k == Len(macro_args) + 1
           returns == /\ create_macro_xs_c(MatNames[k], Handles(materials[k]), n_temps)
                      /\ macro_args' = Append(macro_args, [mat |-> k, n_temps |-> n_temps])
                      /\ pc' = pc
           \* line 150 with a handle past the end of nuclides_MG is undefined
           \* behaviour: the address is formed all the same, or the run ends
           crashes == /\ n_temps > 0
                      /\ \E n \in 1..Len(materials[k].nuclide_) :
                           ~InBounds(nuclides_MG, Handles(materials[k])[n] - 1)
                      /\ pc' = "undefined"
                      /\ UNCHANGED <<macro_xs, macro_args>>
       IN returns \/ crashes
  /\ UNCHANGED <<file, materials, error, grid, store, loop, n_add, read_log, transportvars>>

\* ------------------------------------------------------------------ inputs
MaterialLists ==
  {ms \in SeqsUpTo([nuclide_ : SeqsUpTo(NuclideIndices, MaxRefs), fissionable_ : {FALSE}], MaxMaterials) :
     SumLen([k \in 1..Len(ms) |-> ms[k].nuclide_]) <= MaxRefs}

Descending == [i \in 1..(MaxGroups + 1) |-> 2 * (MaxGroups + 2 - i)]

\* libraries for the loading sequence: any file type and version, any set of tables
FilesLoad ==
  {f \in [filetype : {"mgxs", "endf"}, version : {VERSION_MGXS_LIBRARY, <<0, 9>>},
          attrs : {{"energy_groups", "group structure"}},
          energy_groups : {MaxGroups}, group_structure : {Descending},
          datasets : [Names -> {Absent, Fissile, NonFissile}]] : TRUE}

\* libraries for the group structure: any boundary list, valid or not
FilesGrid ==
  {f \in [filetype : {"mgxs"}, version : {VERSION_MGXS_LIBRARY},
          attrs : SUBSET {"energy_groups", "group structure"},
          energy_groups : 0..MaxGroups, group_structure : SeqsUpTo(Energies, MaxGroups + 1),
          datasets : {[n \in Names |-> NonFissile], [n \in Names |-> Absent]}] : TRUE}

NoCall == [fn |-> "none"]

InitWith(files, mats, start) ==
  /\ file \in files
  /\ materials \in mats
  /\ pc = start
  /\ caller = [gout |-> <<>>, dg |-> <<>>]
  /\ own = [w \in Workers |-> {}]
  /\ call = NoCall
  /\ error = ""
  /\ num_energy_groups = 0
  /\ rev_energy_bins = <<>>
  /\ energy_bins = <<>>
  /\ energy_bin_avg = <<>>
  /\ libraries = <<>>
  /\ nuclides_MG = <<>>
  /\ nuc_buf = 0
  /\ nuc_cap = 0
  /\ macro_xs = <<>>
  /\ already_read = {}
  /\ mat_pos = 1
  /\ nuc_pos = 1
  /\ n_add = [n \in Names |-> 0]
  /\ read_log = {}
  /\ macro_args = <<>>

Init == InitWith(FilesLoad, MaterialLists, "header")

Next ==
  \/ read_mg_cross_sections_header_c
  \/ read_mgxs_open
  \/ read_mgxs_iter
  \/ read_mgxs_close
  \/ build_macro_xs

vars == <<loadvars, transportvars>>

Spec == Init /\ [][Next]_vars

\* ------------------------------------- calls in any order (the exported API)
api_add_mgxs ==
  /\ pc = "api"
  /\ Len(nuclides_MG) <= MaxNuclides
  /\ \E name \in Names :
       /\ add_mgxs_c(file, name)
       /\ IF DatasetMissing(file, name) THEN TRUE ELSE UNCHANGED <<pc, error>>
  /\ UNCHANGED <<file, materials, grid, macro_xs, loop, read_log, macro_args, transportvars>>

api_create_macro_xs ==
  /\ pc = "api"
  /\ Len(macro_xs) < MaxMaterials
  /\ \E i_nuclides \in SeqsUpTo(1..Len(nuclides_MG), MaxRefs), n_temps \in TempCounts :
       /\ create_macro_xs_c(MatNames[Len(macro_xs) + 1], i_nuclides, n_temps)
       /\ macro_args' = Append(macro_args, [mat |-> Len(macro_xs) + 1, n_temps |-> n_temps])
  /\ UNCHANGED <<file, materials, pc, error, grid, store, loop, n_add, read_log, transportvars>>

FilesAPI ==
  {f \in FilesLoad : f.filetype = "mgxs" /\ f.version = VERSION_MGXS_LIBRARY
                     /\ f.attrs = {"energy_groups", "group structure"}}

InitAPI == InitWith(FilesAPI, {<<>>}, "api")

NextAPI == api_add_mgxs \/ api_create_macro_xs

SpecAPI == InitAPI /\ [][NextAPI]_vars

\* ------------------------------------------------ selection and lookup
\* the temperature points of a table and the requests the workers make
kTs == <<300, 600>>
SqrtkTs == {250, 500}
Directions == {-1, 1}

Abs(x) == IF x < 0 THEN -x ELSE x

\* the 0-based index of the point nearest to x (the first one on a tie)
NearestIndex(points, x) ==
  CHOOSE i \in 0..(Len(points) - 1) :
    \A j \in 0..(Len(points) - 1) :
      \/ Abs(At(points, i) - x) < Abs(At(points, j) - x)
      \/ (Abs(At(points, i) - x) = Abs(At(points, j) - x) /\ i <= j)

\* the angular bin of a direction
AngleIndex(uvw) == IF uvw < 0 THEN 0 ELSE 1

\* Mgxs::set_temperature_index, Mgxs::set_angle_index: the table's cached selection
set_temperature_index(tbl, sqrtkT) == [tbl EXCEPT !.t = NearestIndex(kTs, sqrtkT)]
set_angle_index(tbl, uvw) == [tbl EXCEPT !.a = AngleIndex(uvw)]

SetAt(v, i, x) == [v EXCEPT ![i + 1] = x]

Selected(kind, index, field, value) ==
  [kind |-> kind, index |-> index, field |-> field, value |-> value]

\* lines 274-279
set_nuclide_temperature_index_c(w, index, sqrtkT) ==
  /\ pc = "transport"
  /\ nuclides_MG' = SetAt(nuclides_MG, index - 1, set_temperature_index(At(nuclides_MG, index - 1), sqrtkT))
  /\ own' = [own EXCEPT ![w] = {Selected("nuclide", index, "t", At(nuclides_MG', index - 1).t)}]
  /\ call' = NoCall
  /\ UNCHANGED <<file, materials, pc, error, grid, nuc_buf, nuc_cap, macro_xs, loop, n_add, read_log, macro_args, caller>>

\* lines 256-261
set_nuclide_angle_index_c(w, index, uvw) ==
  /\ pc = "transport"
  /\ nuclides_MG' = SetAt(nuclides_MG, index - 1, set_angle_index(At(nuclides_MG, index - 1), uvw))
  /\ own' = [own EXCEPT ![w] = {Selected("nuclide", index, "a", At(nuclides_MG', index - 1).a)}]
  /\ call' = NoCall
  /\ UNCHANGED <<file, materials, pc, error, grid, nuc_buf, nuc_cap, macro_xs, loop, n_add, read_log, macro_args, caller>>

\* lines 265-270
set_macro_angle_index_c(w, index, uvw) ==
  /\ pc = "transport"
  /\ macro_xs' = SetAt(macro_xs, index - 1, set_angle_index(At(macro_xs, index - 1), uvw))
  /\ own' = [own EXCEPT ![w] = {Selected("macro", index, "a", At(macro_xs', index - 1).a)}]
  /\ call' = NoCall
  /\ UNCHANGED <<file, materials, pc, error, grid, store, loop, n_add, read_log, macro_args, caller>>

\* an optional index, <<>> for a null pointer: *p - 1 behind a fresh pointer
ToZeroBased(p) == IF p = <<>> THEN <<>> ELSE <<p[1] - 1>>

Lookup(fn, w, index, gin, table, gin_c, gout_c, dg_c, tbl) ==
  [fn |-> fn, w |-> w, index |-> index, gin_in |-> gin,
   table |-> table, gin |-> gin_c, gout |-> gout_c, dg |-> dg_c, t |-> tbl.t, a |-> tbl.a]

\* lines 198-204: Mgxs::calculate_xs selects the temperature and the angle
\* and evaluates under them
calculate_xs_c(w, i_mat, gin, sqrtkT, uvw) ==
  /\ pc = "transport"
  /\ LET tbl == set_angle_index(set_temperature_index(At(macro_xs, i_mat - 1), sqrtkT), uvw)
     IN /\ macro_xs' = SetAt(macro_xs, i_mat - 1, tbl)
        /\ own' = [own EXCEPT ![w] = {Selected("macro", i_mat, "t", tbl.t), Selected("macro", i_mat, "a", tbl.a)}]
        /\ call' = Lookup("calculate_xs", w, i_mat, gin, i_mat - 1, gin - 1, <<>>, <<>>, tbl)
  /\ UNCHANGED <<file, materials, pc, error, grid, store, loop, n_add, read_log, macro_args, caller>>

\* lines 208-228; the table evaluates under its cached selection
get_nuclide_xs_c(w, index, gin) ==
  /\ pc = "transport"
  /\ call' = Lookup("nuclide", w, index, gin, index - 1, gin - 1,
                    ToZeroBased(caller.gout), ToZeroBased(caller.dg), At(nuclides_MG, index - 1))
  /\ UNCHANGED <<loadvars, caller, own>>

get_macro_xs_c_in_place(w, index, gin) ==
  /\ pc = "transport"
  /\ caller' = [gout |-> ToZeroBased(caller.gout), dg |-> ToZeroBased(caller.dg)]
  /\ call' = Lookup("macro", w, index, gin, index - 1, gin - 1,
                    caller'.gout, caller'.dg, At(macro_xs, index - 1))
  /\ UNCHANGED <<loadvars, own>>

\* lines 232-252
get_macro_xs_c(w, index, gin) ==
  /\ pc = "transport"
  /\ call' = Lookup("macro", w, index, gin, index - 1, gin - 1,
                    ToZeroBased(caller.gout), ToZeroBased(caller.dg), At(macro_xs, index - 1))
  /\ UNCHANGED <<loadvars, caller, own>>

Optional(S) == {<<>>} \cup {<<v>> : v \in S}

\* the caller sets the integers its next lookups point to (or passes null)
caller_prepares ==
  /\ pc = "transport"
  /\ \E g \in Optional(1..MaxGroups), d \in Optional(1..MaxDelayedGroups) :
       caller' = [gout |-> g, dg |-> d]
  /\ call' = NoCall
  /\ UNCHANGED <<loadvars, own>>

NuclideHandles == 1..Len(nuclides_MG)
MacroHandles == 1..Len(macro_xs)
GroupsIn == 1..MaxGroups

\* the state read_mgxs and the material setup leave for one material of the
\* first n nuclides
LoadedFile ==
  [filetype |-> "mgxs", version |-> VERSION_MGXS_LIBRARY,
   attrs |-> {"energy_groups", "group structure"},
   energy_groups |-> MaxGroups, group_structure |-> Descending,
   datasets |-> [n \in Names |-> IF n = nuclide_names[0] THEN Fissile ELSE NonFissile]]

Loaded(n) ==
  /\ file = LoadedFile
  /\ materials = <<[nuclide_ |-> [k \in 1..n |-> k - 1], fissionable_ |-> TRUE]>>
  /\ error = ""
  /\ num_energy_groups = MaxGroups
  /\ rev_energy_bins = Descending
  /\ energy_bins = Reverse(Descending)
  /\ energy_bin_avg = AverageEnergies(Reverse(Descending))
  /\ libraries = LibrariesOf(group_names(LoadedFile))
  /\ nuclides_MG = [k \in 1..n |-> Mgxs(LoadedFile, nuclide_names[k - 1])]
  /\ nuc_buf = n
  /\ nuc_cap = n
  /\ macro_xs = <<[name |-> MatNames[1], n_temps |-> 1,
                   mgxs_ptr |-> [k \in 1..n |-> [buf |-> n, pos |-> k - 1]], t |-> 0, a |-> 0]>>
  /\ already_read = {nuclide_names[k - 1] : k \in 1..n}
  /\ mat_pos = 2
  /\ nuc_pos = 1
  /\ n_add = [name \in Names |-> IF name \in {nuclide_names[k - 1] : k \in 1..n} THEN 1 ELSE 0]
  /\ read_log = {[i_nuc |-> i, in_bounds |-> TRUE, hit |-> nuclide_names[i]] : i \in 0..(n - 1)}
  /\ macro_args = <<[mat |-> 1, n_temps |-> 1]>>

InitLoaded(n) ==
  /\ Loaded(n)
  /\ pc = "transport"
  /\ caller = [gout |-> <<>>, dg |-> <<>>]
  /\ own = [w \in Workers |-> {}]
  /\ call = NoCall

InitTransport == InitLoaded(1)

NextTransport ==
  \/ \E w \in Workers, index \in NuclideHandles, sqrtkT \in SqrtkTs : set_nuclide_temperature_index_c(w, index, sqrtkT)
  \/ \E w \in Workers, index \in NuclideHandles, uvw \in Directions : set_nuclide_angle_index_c(w, index, uvw)
  \/ \E w \in Workers, index \in MacroHandles, uvw \in Directions : set_macro_angle_index_c(w, index, uvw)
  \/ \E w \in Workers, i_mat \in MacroHandles, gin \in GroupsIn, sqrtkT \in SqrtkTs, uvw \in Directions :
       calculate_xs_c(w, i_mat, gin, sqrtkT, uvw)
  \/ \E w \in Workers, index \in NuclideHandles, gin \in GroupsIn : get_nuclide_xs_c(w, index, gin)
  \/ \E w \in Workers, index \in MacroHandles, gin \in GroupsIn : get_macro_xs_c(w, index, gin)

SpecTransport == InitTransport /\ [][NextTransport]_vars

NextLookup ==
  \/ caller_prepares
  \/ \E w \in Workers, index \in NuclideHandles, gin \in GroupsIn : get_nuclide_xs_c(w, index, gin)
  \/ \E w \in Workers, index \in MacroHandles, gin \in GroupsIn : get_macro_xs_c(w, index, gin)

InitLookup == InitLoaded(2)

SpecLookup == InitLookup /\ [][NextLookup]_vars

\* the group structure alone: every boundary list, one material
InitGrid == InitWith(FilesGrid, {<<[nuclide_ |-> <<0>>, fissionable_ |-> FALSE]>>}, "header")

SpecGrid == InitGrid /\ [][Next]_vars

\* ----------------------------------------------------------- the claims
\* the positions (material, reference) at which a name is referenced
RefsOf(name) ==
  {p \in (1..Len(materials)) \X (1..MaxRefs) :
     /\ p[2] <= Len(materials[p[1]].nuclide_)
     /\ nuclide_names[materials[p[1]].nuclide_[p[2]]] = name}

Referenced == {name \in Names : RefsOf(name) # {}}

TablesNamed(name) == {k \in 1..Len(nuclides_MG) : nuclides_MG[k].name = name}

\* C1: add_mgxs_c is never called twice for a name, and when read_mgxs has
\* returned it was called exactly once for every name some material
\* references and never for another one, so that the nuclide store holds
\* exactly one table per distinct referenced name.
C1_LoadedExactlyOnce ==
  /\ \A name \in Names : n_add[name] <= 1
  /\ pc = "macro" =>
       /\ \A name \in Names :
            /\ n_add[name] = (IF name \in Referenced THEN 1 ELSE 0)
            /\ Cardinality(TablesNamed(name)) = n_add[name]
       /\ Len(nuclides_MG) = Cardinality(Referenced)

\* read_mgxs has returned and a name referenced by two different materials
\* was loaded once
C1_Witness ==
  /\ pc = "macro"
  /\ \E name \in Names :
       /\ \E p, q \in RefsOf(name) : p[1] # q[1]
       /\ n_add[name] = 1

AllEmpty ==
  /\ energy_bins = <<>>
  /\ energy_bin_avg = <<>>
  /\ libraries = <<>>
  /\ nuclides_MG = <<>>
  /\ macro_xs = <<>>

\* C2: when the load of a file with a mismatched version has failed
\* fatally, energy_bins, energy_bin_avg, the library catalog, the nuclide
\* store and the macroscopic store are all still empty.
C2_VersionMismatchLeavesAllEmpty ==
  (file.version # VERSION_MGXS_LIBRARY /\ pc = "fatal" /\ error = "version mismatch") => AllEmpty

\* C3: in a run where some material references a name the file has no data
\* set for, read_mgxs never returns and no macroscopic table is ever built;
\* in particular the macroscopic store is empty when add_mgxs_c fails.
C3_MissingFailsBeforeMacro ==
  /\ (\E name \in Referenced : ~object_exists(file, name)) => (macro_xs = <<>> /\ pc # "macro")
  /\ (pc = "fatal" /\ error = "data set missing") => macro_xs = <<>>

\* add_mgxs_c has failed for a missing data set after another table was loaded
C3_Witness ==
  /\ pc = "fatal"
  /\ error = "data set missing"
  /\ Len(nuclides_MG) >= 1
  /\ macro_xs = <<>>

HasFissile(mat) ==
  \E n \in 1..Len(mat.nuclide_) : file.datasets[nuclide_names[mat.nuclide_[n]]] = Fissile

\* C4: when read_mgxs has returned, a material is flagged fissionable
\* exactly when one of its constituent nuclides is fissionable, and
\* query_fissionable_c answers the same for the material's handles.
C4_FissionableIffConstituent ==
  pc = "macro" =>
    \A m \in 1..Len(materials) :
      /\ materials[m].fissionable_ <=> HasFissile(materials[m])
      /\ (\A n \in 1..Len(materials[m].nuclide_) : InBounds(nuclides_MG, materials[m].nuclide_[n]))
           => (query_fissionable_c(Handles(materials[m])) <=> HasFissile(materials[m]))

\* C7: after k calls of create_macro_xs_c, made in material order, the
\* macroscopic store holds k entries and entry k is the one built for
\* material k: the blank entry when n_temps = 0, the material's table
\* (its name, its temperatures, its nuclide handles) otherwise.
C7_MacroPositions ==
  /\ Len(macro_xs) = Len(macro_args)
  /\ \A k \in 1..Len(macro_args) :
       /\ macro_args[k].mat = k
       /\ IF macro_args[k].n_temps = 0
          THEN macro_xs[k] = BlankMgxs
          ELSE /\ macro_xs[k].name = MatNames[k]
               /\ macro_xs[k].n_temps = macro_args[k].n_temps
               /\ Len(macro_xs[k].mgxs_ptr) = Len(materials[k].nuclide_)
               /\ \A n \in 1..Len(materials[k].nuclide_) :
                    macro_xs[k].mgxs_ptr[n].pos = materials[k].nuclide_[n]

\* a material without temperatures came first and one with temperatures second
C7_Witness ==
  /\ Len(macro_args) >= 2
  /\ macro_args[1].n_temps = 0
  /\ macro_args[2].n_temps > 0
  /\ macro_xs[1] = BlankMgxs
  /\ macro_xs[2].name = MatNames[2]

StrictlyDescending(s) == \A i \in 1..(Len(s) - 1) : s[i] > s[i + 1]

StrictlyIncreasing(s) == \A i \in 1..(Len(s) - 1) : s[i] < s[i + 1]

\* section 6 of the specification: energy_groups + 1 descending boundaries
ValidLibrary(f) ==
  /\ attribute_exists(f, "energy_groups")
  /\ attribute_exists(f, "group structure")
  /\ Len(f.group_structure) = f.energy_groups + 1
  /\ StrictlyDescending(f.group_structure)

\* C8: for a valid library, in every state after the header was read,
\* energy_bins holds num_energy_groups + 1 boundaries, strictly increasing,
\* boundary i being the file's boundary num_energy_groups - i, and
\* energy_bin_avg holds num_energy_groups entries.
C8_GridShape ==
  (ValidLibrary(file) /\ pc # "header") =>
    /\ num_energy_groups + 1 = Len(energy_bins)
    /\ StrictlyIncreasing(energy_bins)
    /\ \A i \in 0..num_energy_groups :
         At(energy_bins, i) = At(file.group_structure, num_energy_groups - i)
    /\ Len(energy_bin_avg) = num_energy_groups

\* a valid library of MaxGroups groups was loaded and the tables were read
C8_Witness ==
  /\ ValidLibrary(file)
  /\ pc = "macro"
  /\ num_energy_groups = MaxGroups
  /\ Len(energy_bins) = MaxGroups + 1

\* C10: every read of nuclides_MG[i_nuc] at line 91 is in bounds and hits
\* the table of nuclide_names[i_nuc], and every table of the nuclide store
\* sits at the position that is its nuclide's index in the nuclide map.
C10_ReadsHitOwnTable ==
  /\ \A r \in read_log : r.in_bounds /\ r.hit = nuclide_names[r.i_nuc]
  /\ \A k \in 1..Len(nuclides_MG) : nuclides_MG[k].name = nuclide_names[k - 1]

\* C5: every nuclide-table reference a macroscopic table holds points into
\* the buffer the nuclide store owns now, at a position inside it: no
\* growth of the store has moved the table away from under the reference.
C5_ReferencesStayLive ==
  \A k \in 1..Len(macro_xs) : \A n \in 1..Len(macro_xs[k].mgxs_ptr) :
    /\ macro_xs[k].mgxs_ptr[n].buf = nuc_buf
    /\ InBounds(nuclides_MG, macro_xs[k].mgxs_ptr[n].pos)

KindOf(fn) == IF fn = "nuclide" THEN "nuclide" ELSE "macro"

C9_IndicesTranslatedOnce ==
  call.fn \in {"nuclide", "macro"} =>
    /\ call.table = call.index - 1
    /\ call.gin = call.gin_in - 1
    /\ call.gout = (IF caller.gout = <<>> THEN <<>> ELSE <<caller.gout[1] - 1>>)
    /\ call.dg = (IF caller.dg = <<>> THEN <<>> ELSE <<caller.dg[1] - 1>>)

\* a macroscopic lookup with an outgoing group and no delayed group
C9_Witness ==
  /\ call.fn = "macro"
  /\ caller.gout = <<MaxGroups>>
  /\ caller.dg = <<>>
  /\ call.gout = <<MaxGroups - 1>>
  /\ call.dg = <<>>
  /\ call.gin = call.gin_in - 1

====
